---- MODULE Spec2Model ----
(***************************************************************************)
(* A model of bikeshare.py: the interactive controller (main, get_filters, *)
(* get_user_input, show_raw_data), the loader and filter (load_data) and   *)
(* the four reports (time_stats, station_stats, trip_duration_stats,       *)
(* user_stats) with their helper display_popular_stats.                    *)
(*                                                                         *)
(* Strings are sequences of one-character strings, so that str.lower and   *)
(* str.title are computed character by character.  A table cell is <<>>    *)
(* when missing (NaN) and <<v>> when it holds v.  A DataFrame is a record   *)
(* [columns, rows]; every row carries its pandas index label.              *)
(***************************************************************************)
EXTENDS Integers, Sequences, FiniteSets, TLC

(***************************************************************************)
(* Bounds of the model.                                                    *)
(***************************************************************************)
MaxRows == 3

(***************************************************************************)
(* Characters and the str methods the program uses.                        *)
(***************************************************************************)
UpperCase ==
  <<"A","B","C","D","E","F","G","H","I","J","K","L","M",
    "N","O","P","Q","R","S","T","U","V","W","X","Y","Z">>

LowerCase ==
  <<"a","b","c","d","e","f","g","h","i","j","k","l","m",
    "n","o","p","q","r","s","t","u","v","w","x","y","z">>

DigitChars == <<"0","1","2","3","4","5","6","7","8","9">>

\* code-point order of the characters that occur (space < digits < upper < lower)
CharOrder == <<" ">> \o DigitChars \o UpperCase \o LowerCase

IndexIn(seq, x) == CHOOSE i \in 1..Len(seq) : seq[i] = x

Occurs(seq, x) == \E i \in 1..Len(seq) : seq[i] = x

IsUpper(c) == Occurs(UpperCase, c)

IsLower(c) == Occurs(LowerCase, c)

IsLetter(c) == IsUpper(c) \/ IsLower(c)

ToLowerChar(c) == IF IsUpper(c) THEN LowerCase[IndexIn(UpperCase, c)] ELSE c

ToUpperChar(c) == IF IsLower(c) THEN UpperCase[IndexIn(LowerCase, c)] ELSE c

\* str.lower()
Lower(s) == [i \in 1..Len(s) |-> ToLowerChar(s[i])]

\* str.title(): a letter that starts a word is upper-cased, every other letter lower-cased
Title(s) ==
  [i \in 1..Len(s) |->
     IF i = 1 \/ ~IsLetter(s[i - 1]) THEN ToUpperChar(s[i]) ELSE ToLowerChar(s[i])]

Ord(c) == IndexIn(CharOrder, c)

\* s < t for Python strings (lexicographic by code point)
RECURSIVE StrLess(_, _)
StrLess(s, t) ==
  IF t = <<>> THEN FALSE
  ELSE IF s = <<>> THEN TRUE
  ELSE IF s[1] = t[1] THEN StrLess(Tail(s), Tail(t))
  ELSE Ord(s[1]) < Ord(t[1])

\* str(n) for a natural number n below 10000
Str(n) ==
  IF n < 10 THEN <<DigitChars[n + 1]>>
  ELSE IF n < 100 THEN <<DigitChars[(n \div 10) + 1], DigitChars[(n % 10) + 1]>>
  ELSE <<DigitChars[(n \div 1000) + 1], DigitChars[((n \div 100) % 10) + 1],
         DigitChars[((n \div 10) % 10) + 1], DigitChars[(n % 10) + 1]>>

(***************************************************************************)
(* The module constants of bikeshare.py.                                   *)
(***************************************************************************)
chicago == <<"c","h","i","c","a","g","o">>

new_york_city == <<"n","e","w"," ","y","o","r","k"," ","c","i","t","y">>

washington == <<"w","a","s","h","i","n","g","t","o","n">>

\* CITY_DATA.keys()
CITY_DATA == <<chicago, new_york_city, washington>>

all == <<"a","l","l">>

VALID_MONTH_OPTIONS ==
  << all,
     <<"j","a","n","u","a","r","y">>,
     <<"f","e","b","r","u","a","r","y">>,
     <<"m","a","r","c","h">>,
     <<"a","p","r","i","l">>,
     <<"m","a","y">>,
     <<"j","u","n","e">> >>

VALID_WEEKDAY_OPTIONS ==
  << all,
     <<"m","o","n","d","a","y">>,
     <<"t","u","e","s","d","a","y">>,
     <<"w","e","d","n","e","s","d","a","y">>,
     <<"t","h","u","r","s","d","a","y">>,
     <<"f","r","i","d","a","y">>,
     <<"s","a","t","u","r","d","a","y">>,
     <<"s","u","n","d","a","y">> >>

\* list.index(x) is 0-based
ListIndex(list, x) == IndexIn(list, x) - 1

\* list[i] with a 0-based i; Python raises IndexError outside -len..len-1
InList(list, i) == i >= 0 - Len(list) /\ i < Len(list)

ListAt(list, i) == IF i >= 0 THEN list[i + 1] ELSE list[Len(list) + i + 1]

(***************************************************************************)
(* Tables.  A raw row read from a csv file is a function from the file's   *)
(* columns and "index" to cells.  "Start Time" is the required column: its *)
(* cell holds the calendar fields of the parsed timestamp, <<[month,       *)
(* weekday, hour]>> with weekday 0 = Monday.                               *)
(***************************************************************************)
NaN == <<>>

OptionalColumns ==
  {"Start Station", "End Station", "Trip Duration", "User Type", "Gender", "Birth Year"}

DerivedColumns == {"month", "day_of_week", "start_hour"}

\* columns holding numbers; the others hold strings
NumericColumns == {"month", "Trip Duration", "Birth Year"}

\* strftime('%A')
DayNames ==
  << <<"M","o","n","d","a","y">>,
     <<"T","u","e","s","d","a","y">>,
     <<"W","e","d","n","e","s","d","a","y">>,
     <<"T","h","u","r","s","d","a","y">>,
     <<"F","r","i","d","a","y">>,
     <<"S","a","t","u","r","d","a","y">>,
     <<"S","u","n","d","a","y">> >>

StrftimeA(t) == DayNames[t.weekday + 1]

\* strftime('%I %p'): 12-hour clock, zero padded, then AM or PM
StrftimeIp(t) ==
  LET h12 == ((t.hour + 11) % 12) + 1
  IN  <<DigitChars[(h12 \div 10) + 1], DigitChars[(h12 % 10) + 1], " ">>
        \o (IF t.hour < 12 THEN <<"A","M">> ELSE <<"P","M">>)

\* load_data, lines 92-97: the three derived columns are added to every row
Derive(df) ==
  [columns |-> df.columns \cup DerivedColumns,
   rows |-> [i \in 1..Len(df.rows) |->
               LET t == df.rows[i]["Start Time"][1]
               IN  ("month" :> <<t.month>>) @@ ("day_of_week" :> <<StrftimeA(t)>>)
                     @@ ("start_hour" :> <<StrftimeIp(t)>>) @@ df.rows[i]]]

\* df[mask]: the rows whose mask is true, in order, with their index labels
RECURSIVE SelectRows(_, _, _)
SelectRows(rows, col, cell) ==
  IF rows = <<>> THEN <<>>
  ELSE IF Head(rows)[col] = cell
       THEN <<Head(rows)>> \o SelectRows(Tail(rows), col, cell)
       ELSE SelectRows(Tail(rows), col, cell)

\* line 102 counting the months from the head of the list, 'all' included
MonthNumberFromHead(month) == IndexIn(VALID_MONTH_OPTIONS, month)

\* load_data, line 102
MonthNumber(month) == ListIndex(VALID_MONTH_OPTIONS, month)

\* load_data, line 110
DayKey(day) == Title(day)

\* lines 100-105 without the test for 'all'
MonthFilterUnguarded(df, month) ==
  [df EXCEPT !.rows = SelectRows(df.rows, "month", <<MonthNumber(month)>>)]

\* load_data, lines 100-105
MonthFilter(df, month) ==
  IF month # all
  THEN [df EXCEPT !.rows = SelectRows(df.rows, "month", <<MonthNumber(month)>>)]
  ELSE df

\* load_data, lines 108-110
DayFilter(df, day) ==
  IF day # all
  THEN [df EXCEPT !.rows = SelectRows(df.rows, "day_of_week", <<DayKey(day)>>)]
  ELSE df

\* load_data, lines 99-112
FilterData(df, month, day) == DayFilter(MonthFilter(df, month), day)

\* column_exists
column_exists(df, col_name) == col_name \in df.columns

(***************************************************************************)
(* Series operations.                                                      *)
(***************************************************************************)
\* the non-missing values of a column, in row order
RECURSIVE NotNull(_, _)
NotNull(rows, col) ==
  IF rows = <<>> THEN <<>>
  ELSE Head(rows)[col] \o NotNull(Tail(rows), col)

Values(vals) == {vals[i] : i \in 1..Len(vals)}

\* value_counts()[v]
CountOf(vals, v) == Cardinality({i \in 1..Len(vals) : vals[i] = v})

ValueLess(col, a, b) == IF col \in NumericColumns THEN a < b ELSE StrLess(a, b)

\* Series.mode(): the values of maximum frequency, sorted ascending
ModeSet(vals) ==
  {v \in Values(vals) : \A w \in Values(vals) : CountOf(vals, w) <= CountOf(vals, v)}

\* Series.mode()[0], defined when vals is not empty
ModeFirst(col, vals) ==
  CHOOSE v \in ModeSet(vals) : \A w \in ModeSet(vals) : ~ValueLess(col, w, v)

RECURSIVE SumOf(_)
SumOf(vals) == IF vals = <<>> THEN 0 ELSE Head(vals) + SumOf(Tail(vals))

MinOf(vals) == CHOOSE v \in Values(vals) : \A w \in Values(vals) : v <= w

MaxOf(vals) == CHOOSE v \in Values(vals) : \A w \in Values(vals) : w <= v

\* str(v) of a cell value
ValueStr(col, v) == IF col \in NumericColumns THEN Str(v) ELSE v

(***************************************************************************)
(* Outcomes of one statistic.                                              *)
(***************************************************************************)
NotRun == [kind |-> "notrun"]

Absent == [kind |-> "absent"]

\* an uncaught exception
Crash == [kind |-> "crash"]

\* a / b as a fraction
Ratio(a, b) == [num |-> a, den |-> b]

\* display_popular_stats; display_lookup_list is <<>> for None
display_popular_stats(df, col_name, display_lookup_list) ==
  IF ~column_exists(df, col_name) THEN Absent
  ELSE LET vals == NotNull(df.rows, col_name)
       IN  IF vals = <<>> THEN Crash
           ELSE LET popular_element == ModeFirst(col_name, vals)
                    popular_element_trips == CountOf(vals, popular_element)
                    total_trips == Len(vals)
                IN  IF display_lookup_list # <<>> /\ ~InList(display_lookup_list, popular_element)
                    THEN Crash
                    ELSE [kind |-> "stat",
                          value |-> popular_element,
                          label |-> IF display_lookup_list # <<>>
                                    THEN Title(ListAt(display_lookup_list, popular_element))
                                    ELSE ValueStr(col_name, popular_element),
                          count |-> popular_element_trips,
                          total |-> total_trips,
                          percent |-> Ratio(popular_element_trips * 100, total_trips)]

\* the (Start Station, End Station) keys of groupby: rows missing either key are dropped
PairKeys(rows) ==
  {<<rows[i]["Start Station"][1], rows[i]["End Station"][1]>> :
     i \in {j \in 1..Len(rows) :
              rows[j]["Start Station"] # NaN /\ rows[j]["End Station"] # NaN}}

\* groupby([...])['End Station'].count() of one group
PairCount(rows, k) ==
  Cardinality({i \in 1..Len(rows) :
                 rows[i]["Start Station"] = <<k[1]>> /\ rows[i]["End Station"] = <<k[2]>>})

\* the groups that sort_values(ascending=False) may put first: the sort is not
\* stable, so any group of the largest count can lead; popular_start_end[0] and
\* popular_start_end.index[0] both read that first position
TopPairs(rows) ==
  {k \in PairKeys(rows) : \A m \in PairKeys(rows) : PairCount(rows, m) <= PairCount(rows, k)}

\* lines 206-214 with the total taken over the rows that have both stations
PairStatsGroupedTotal(df) ==
  IF ~(column_exists(df, "Start Station") /\ column_exists(df, "End Station"))
  THEN {Absent}
  ELSE IF PairKeys(df.rows) = {} THEN {Crash}
  ELSE {[kind |-> "stat",
         pair |-> k,
         count |-> PairCount(df.rows, k),
         total |-> Cardinality({i \in 1..Len(df.rows) :
                                  df.rows[i]["Start Station"] # NaN
                                    /\ df.rows[i]["End Station"] # NaN}),
         percent |-> Ratio(PairCount(df.rows, k) * 100, Len(NotNull(df.rows, "End Station")))] :
          k \in TopPairs(df.rows)}

\* station_stats, lines 206-214: the outcomes of the pair statistic
PairStats(df) ==
  IF ~(column_exists(df, "Start Station") /\ column_exists(df, "End Station"))
  THEN {Absent}
  ELSE IF PairKeys(df.rows) = {} THEN {Crash}
  ELSE {[kind |-> "stat",
         pair |-> k,
         count |-> PairCount(df.rows, k),
         total |-> Len(NotNull(df.rows, "End Station")),
         percent |-> Ratio(PairCount(df.rows, k) * 100, Len(NotNull(df.rows, "End Station")))] :
          k \in TopPairs(df.rows)}

\* trip_duration_stats, lines 226-233: sum() of no values is 0, mean() of no values is NaN
DurationStats(df) ==
  IF ~column_exists(df, "Trip Duration") THEN Absent
  ELSE LET vals == NotNull(df.rows, "Trip Duration")
       IN  [kind |-> "stat",
            sum |-> SumOf(vals),
            mean |-> IF vals = <<>> THEN NaN ELSE <<Ratio(SumOf(vals), Len(vals))>>]

\* user_stats, lines 247-257: value_counts() with its normalized twin
CountsStats(df, col_name) ==
  IF ~column_exists(df, col_name) THEN Absent
  ELSE LET vals == NotNull(df.rows, col_name)
       IN  [kind |-> "stat",
            counts |-> [v \in Values(vals) |-> CountOf(vals, v)],
            percent |-> [v \in Values(vals) |-> Ratio(CountOf(vals, v), Len(vals))]]

\* user_stats, lines 259-268: int() of the NaN that min() gives for no values raises
BirthYearStats(df) ==
  IF ~column_exists(df, "Birth Year") THEN Absent
  ELSE LET vals == NotNull(df.rows, "Birth Year")
       IN  IF vals = <<>> THEN Crash
           ELSE [kind |-> "stat",
                 min |-> MinOf(vals),
                 max |-> MaxOf(vals),
                 mode |-> ModeFirst("Birth Year", vals)]

\* statements run in order; an exception ends the run of those after it
Sequenced(results) ==
  [i \in 1..Len(results) |->
     IF \E j \in 1..(i - 1) : results[j].kind = "crash" THEN NotRun ELSE results[i]]

Crashed(results) == \E i \in 1..Len(results) : results[i].kind = "crash"

(***************************************************************************)
(* The program state.                                                      *)
(***************************************************************************)
VARIABLES
  csv,         \* the contents of the file of each city of CITY_DATA
  pc,          \* the statement the program is at
  response,    \* get_user_input: the last rejected response
  do_preview,  \* show_raw_data: the last answer
  gf,          \* get_filters: city, month, weekday
  sel,         \* main: city, month, day
  raw,         \* load_data: df before the function returns
  df,          \* main: df
  restart,     \* main: the last answer to the restart prompt
  out,         \* what each statistic of this iteration has printed
  steps        \* the calls of main that have returned in this iteration

vars == <<csv, pc, response, do_preview, gf, sel, raw, df, restart, out, steps>>

Cities == Values(CITY_DATA)

StatNames ==
  {"month", "day_of_week", "start_hour", "Start Station", "End Station", "pair",
   "Trip Duration", "User Type", "Gender", "Birth Year"}

\* a name not bound yet
NoFrame == [columns |-> {}, rows |-> <<>>]

NoFilters == [city |-> NaN, month |-> NaN, day |-> NaN]

NoOutput == [s \in StatNames |-> NotRun]

(***************************************************************************)
(* The csv files and the keyboard: the inputs of the program.              *)
(***************************************************************************)
\* one row of a file: the calendar fields of its Start Time and its optional cells
Trip(m, w, h, ss, es, dur, ut, g, by) ==
  [t |-> [month |-> m, weekday |-> w, hour |-> h],
   cells |-> ("Start Station" :> ss) @@ ("End Station" :> es) @@ ("Trip Duration" :> dur)
               @@ ("User Type" :> ut) @@ ("Gender" :> g) @@ ("Birth Year" :> by)]

\* pd.read_csv of a file with the optional columns cols and the rows trips
MkFile(cols, trips) ==
  [columns |-> {"Start Time"} \cup cols,
   rows |-> [i \in 1..Len(trips) |->
               ("index" :> (i - 1)) @@ ("Start Time" :> <<trips[i].t>>)
                 @@ [c \in cols |-> trips[i].cells[c]]]]

SeqsUpTo(S, n) == UNION {[1..k -> S] : k \in 0..n}

Subscriber == <<"S","u","b","s","c","r","i","b","e","r">>

Customer == <<"C","u","s","t","o","m","e","r">>

Male == <<"M","a","l","e">>

Female == <<"F","e","m","a","l","e">>

\* a trip with every cell filled, at month m, weekday w, hour h
FullTrip(m, w, h) ==
  Trip(m, w, h, <<<<"A">>>>, <<<<"B">>>>, <<10>>, <<Subscriber>>, <<Male>>, <<1980>>)

\* a trip with every optional cell missing
BlankTrip(m, w, h) == Trip(m, w, h, NaN, NaN, NaN, NaN, NaN, NaN)

\* trips that differ in their Start Time
TimeTrips ==
  {FullTrip(1, 0, 8), FullTrip(6, 0, 8), FullTrip(6, 6, 15), FullTrip(7, 6, 0),
   FullTrip(12, 3, 12)}

\* trips that differ in their stations
StationTrips ==
  {Trip(6, 0, 8, ss, es, <<10>>, <<Subscriber>>, <<Male>>, <<1980>>) :
     ss \in {<<<<"A">>>>, NaN}, es \in {<<<<"B">>>>, <<<<"C">>>>, NaN}}

\* trips that differ in their numbers and categories
NumberTrips ==
  {Trip(6, 0, 8, <<<<"A">>>>, <<<<"B">>>>, <<10>>, <<Subscriber>>, <<Male>>, <<1990>>),
   Trip(6, 0, 8, <<<<"A">>>>, <<<<"B">>>>, <<25>>, <<Customer>>, <<Female>>, <<1980>>),
   Trip(6, 0, 8, <<<<"A">>>>, <<<<"B">>>>, NaN, <<Customer>>, NaN, NaN),
   Trip(1, 0, 8, <<<<"A">>>>, <<<<"B">>>>, <<0>>, NaN, <<Male>>, <<1990>>)}

\* the files the reports are checked on
ReportFiles ==
  {MkFile(OptionalColumns, s) : s \in SeqsUpTo(TimeTrips, MaxRows)}
    \cup {MkFile(OptionalColumns, s) : s \in SeqsUpTo(StationTrips, MaxRows)}
    \cup {MkFile(OptionalColumns, s) : s \in SeqsUpTo(NumberTrips, MaxRows)}
    \cup UNION {{MkFile(cols, s) : s \in SeqsUpTo({FullTrip(6, 0, 8), BlankTrip(6, 0, 8)}, MaxRows)} :
                  cols \in SUBSET OptionalColumns}

\* the files the filter is checked on
LoadTrips == {FullTrip(m, w, 8) : m \in {1, 6, 7}, w \in {0, 6}}

LoadFiles == {MkFile(OptionalColumns, s) : s \in SeqsUpTo(LoadTrips, MaxRows)}

\* the files of a session
ScenarioFile ==
  MkFile(OptionalColumns,
         <<Trip(1, 0, 8, <<<<"A">>>>, <<<<"B">>>>, <<10>>, <<Subscriber>>, <<Male>>, <<1980>>),
           Trip(1, 0, 9, <<<<"A">>>>, <<<<"B">>>>, <<20>>, <<Subscriber>>, NaN, <<1980>>),
           Trip(6, 6, 8, <<<<"A">>>>, <<<<"C">>>>, <<30>>, <<Customer>>, <<Female>>, <<1990>>)>>)

SummerFile ==
  MkFile({"Start Station", "End Station", "Trip Duration", "User Type"},
         <<FullTrip(6, 0, 8), FullTrip(7, 0, 8), FullTrip(7, 6, 8)>>)

BlankFile == MkFile(OptionalColumns, <<BlankTrip(6, 0, 8), BlankTrip(6, 6, 8)>>)

Worlds ==
  {(chicago :> ScenarioFile) @@ (new_york_city :> BlankFile) @@ (washington :> SummerFile),
   (chicago :> SummerFile) @@ (new_york_city :> MkFile(OptionalColumns, <<>>))
     @@ (washington :> ScenarioFile)}

\* what the user may type at a prompt
Typed ==
  { <<"C","h","i","c","a","g","o">>,
    <<"N","E","W"," ","y","o","r","k"," ","C","i","t","y">>,
    washington,
    <<"p","a","r","i","s">>,
    all,
    <<"J","u","n","e">>,
    <<"j","u","l","y">>,
    <<"M","O","N","D","A","Y">>,
    <<"m","o","n">>,
    <<"y">>, <<"Y">>, <<"n">>, <<>> }

(***************************************************************************)
(* The controller.  pc is "city", "month", "weekday" at the three prompts  *)
(* of get_filters, "read", "preview", "derive" inside load_data, "time",   *)
(* "station", "duration", "user" before each report, "restart" at the      *)
(* restart prompt, "exit" after main returned and "crash" after an         *)
(* uncaught exception ended the program.                                   *)
(***************************************************************************)
Init ==
  /\ csv \in Worlds
  /\ pc = "city"
  /\ response = NaN
  /\ do_preview = FALSE
  /\ gf = NoFilters
  /\ sel = NoFilters
  /\ raw = NoFrame
  /\ df = NoFrame
  /\ restart = FALSE
  /\ out = NoOutput
  /\ steps = <<>>

\* get_user_input returning any answer that is not empty
AcceptedUnchecked(typed, valid_input_list) == Lower(typed) # <<>>

\* get_user_input: the answer to one prompt, lower-cased, and whether it is returned
Accepted(typed, valid_input_list) == Occurs(valid_input_list, Lower(typed))

\* get_filters, line 50: one pass of the loop of get_user_input
GetCity(typed) ==
  /\ pc = "city"
  /\ IF Accepted(typed, CITY_DATA)
     THEN /\ gf' = [gf EXCEPT !.city = <<Lower(typed)>>]
          /\ response' = NaN
          /\ pc' = "month"
     ELSE /\ response' = <<Lower(typed)>>
          /\ UNCHANGED <<gf, pc>>
  /\ UNCHANGED <<csv, do_preview, sel, raw, df, restart, out, steps>>

\* get_filters, line 52
GetMonth(typed) ==
  /\ pc = "month"
  /\ IF Accepted(typed, VALID_MONTH_OPTIONS)
     THEN /\ gf' = [gf EXCEPT !.month = <<Lower(typed)>>]
          /\ response' = NaN
          /\ pc' = "weekday"
     ELSE /\ response' = <<Lower(typed)>>
          /\ UNCHANGED <<gf, pc>>
  /\ UNCHANGED <<csv, do_preview, sel, raw, df, restart, out, steps>>

\* get_filters, lines 54-57, and the assignment of its result in main, line 274
GetWeekday(typed) ==
  /\ pc = "weekday"
  /\ IF Accepted(typed, VALID_WEEKDAY_OPTIONS)
     THEN /\ sel' = [city |-> gf.city, month |-> gf.month, day |-> <<Lower(typed)>>]
          /\ gf' = NoFilters
          /\ response' = NaN
          /\ steps' = Append(steps, "get_filters")
          /\ pc' = "read"
     ELSE /\ response' = <<Lower(typed)>>
          /\ UNCHANGED <<gf, sel, steps, pc>>
  /\ UNCHANGED <<csv, do_preview, raw, df, restart, out>>

\* load_data, line 87
ReadCsv ==
  /\ pc = "read"
  /\ raw' = csv[sel.city[1]]
  /\ pc' = "preview"
  /\ UNCHANGED <<csv, response, do_preview, gf, sel, df, restart, out, steps>>

\* show_raw_data: one pass of its loop
ShowRawData(typed) ==
  /\ pc = "preview"
  /\ do_preview' = (Lower(typed) = <<"y">>)
  /\ pc' = IF do_preview' THEN "preview" ELSE "derive"
  /\ UNCHANGED <<csv, response, gf, sel, raw, df, restart, out, steps>>

\* load_data, lines 91-112, and the assignment of its result in main, line 275
LoadData ==
  /\ pc = "derive"
  /\ df' = FilterData(Derive(raw), sel.month[1], sel.day[1])
  /\ raw' = NoFrame
  /\ steps' = Append(steps, "load_data")
  /\ pc' = "time"
  /\ UNCHANGED <<csv, response, do_preview, gf, sel, restart, out>>

\* what a report leaves behind: its statistics up to the first exception
Reported(names, results) ==
  /\ out' = [s \in StatNames |->
               IF \E i \in 1..Len(names) : names[i] = s
               THEN Sequenced(results)[IndexIn(names, s)]
               ELSE out[s]]
  /\ UNCHANGED <<csv, response, do_preview, gf, sel, raw, df, restart>>

\* time_stats
TimeStats ==
  /\ pc = "time"
  /\ LET results == <<display_popular_stats(df, "month", VALID_MONTH_OPTIONS),
                      display_popular_stats(df, "day_of_week", <<>>),
                      display_popular_stats(df, "start_hour", <<>>)>>
     IN  /\ Reported(<<"month", "day_of_week", "start_hour">>, results)
         /\ pc' = IF Crashed(results) THEN "crash" ELSE "station"
         /\ steps' = IF Crashed(results) THEN steps ELSE Append(steps, "time_stats")

\* station_stats
StationStats ==
  /\ pc = "station"
  /\ \E pair \in PairStats(df) :
       LET results == <<display_popular_stats(df, "Start Station", <<>>),
                        display_popular_stats(df, "End Station", <<>>),
                        pair>>
       IN  /\ Reported(<<"Start Station", "End Station", "pair">>, results)
           /\ pc' = IF Crashed(results) THEN "crash" ELSE "duration"
           /\ steps' = IF Crashed(results) THEN steps ELSE Append(steps, "station_stats")

\* trip_duration_stats
TripDurationStats ==
  /\ pc = "duration"
  /\ LET results == <<DurationStats(df)>>
     IN  /\ Reported(<<"Trip Duration">>, results)
         /\ pc' = IF Crashed(results) THEN "crash" ELSE "user"
         /\ steps' = IF Crashed(results) THEN steps ELSE Append(steps, "trip_duration_stats")

\* user_stats
UserStats ==
  /\ pc = "user"
  /\ LET results == <<CountsStats(df, "User Type"), CountsStats(df, "Gender"),
                      BirthYearStats(df)>>
     IN  /\ Reported(<<"User Type", "Gender", "Birth Year">>, results)
         /\ pc' = IF Crashed(results) THEN "crash" ELSE "restart"
         /\ steps' = IF Crashed(results) THEN steps ELSE Append(steps, "user_stats")

\* lines 282-285 with the test of line 284 inverted
RestartInverted(typed) ==
  /\ pc = "restart"
  /\ restart' = (Lower(typed) = <<"y">>)
  /\ IF ~restart'
     THEN /\ pc' = "city"
          /\ out' = NoOutput
          /\ steps' = <<>>
     ELSE /\ pc' = "exit"
          /\ UNCHANGED <<out, steps>>
  /\ UNCHANGED <<csv, response, do_preview, gf, sel, raw, df>>

\* main, lines 282-285: 'y' starts get_filters again, anything else ends the loop
Restart(typed) ==
  /\ pc = "restart"
  /\ restart' = (Lower(typed) = <<"y">>)
  /\ IF restart'
     THEN /\ pc' = "city"
          /\ out' = NoOutput
          /\ steps' = <<>>
     ELSE /\ pc' = "exit"
          /\ UNCHANGED <<out, steps>>
  /\ UNCHANGED <<csv, response, do_preview, gf, sel, raw, df>>

Next ==
  \/ \E typed \in Typed : GetCity(typed)
  \/ \E typed \in Typed : GetMonth(typed)
  \/ \E typed \in Typed : GetWeekday(typed)
  \/ ReadCsv
  \/ \E typed \in Typed : ShowRawData(typed)
  \/ LoadData
  \/ TimeStats
  \/ StationStats
  \/ TripDurationStats
  \/ UserStats
  \/ \E typed \in Typed : Restart(typed)

\* a whole session at the keyboard
Spec == Init /\ [][Next]_vars

(***************************************************************************)
(* load_data on its own: every filter selection on every small file.       *)
(***************************************************************************)
Selections(months, days) ==
  {[city |-> <<chicago>>, month |-> <<m>>, day |-> <<d>>] : m \in months, d \in days}

\* the state in which load_data derives and filters, after file was read and shown
AtLoad(file, selection) ==
  /\ csv = [c \in Cities |-> file]
  /\ pc = "derive"
  /\ response = NaN
  /\ do_preview = FALSE
  /\ gf = NoFilters
  /\ sel = selection
  /\ raw = file
  /\ df = NoFrame
  /\ restart = FALSE
  /\ out = NoOutput
  /\ steps = <<"get_filters">>

InitLoad ==
  \E file \in LoadFiles :
    \E selection \in Selections(Values(VALID_MONTH_OPTIONS), Values(VALID_WEEKDAY_OPTIONS)) :
      AtLoad(file, selection)

NextLoad == LoadData

SpecLoad == InitLoad /\ [][NextLoad]_vars

(***************************************************************************)
(* load_data and the four reports on files that vary one column at a time. *)
(***************************************************************************)
InitReports ==
  \E file \in ReportFiles :
    \E selection \in Selections({all, VALID_MONTH_OPTIONS[7]}, {all}) :
      AtLoad(file, selection)

NextReports ==
  \/ LoadData
  \/ TimeStats
  \/ StationStats
  \/ TripDurationStats
  \/ UserStats

SpecReports == InitReports /\ [][NextReports]_vars

(***************************************************************************)
(* Properties.                                                             *)
(***************************************************************************)
\* main holds the view that load_data returned for the selection sel
Loaded == pc \in {"time", "station", "duration", "user", "restart", "exit", "crash"}

\* the derived rows of the file of the selected city
SourceRows == Derive(csv[sel.city[1]]).rows

\* the row passes the selection: its month is the 1-based number of the selected
\* month and its weekday name is the selected one up to case
Selected(r) ==
  /\ sel.month[1] # all =>
       \E n \in 1..6 : VALID_MONTH_OPTIONS[n + 1] = sel.month[1] /\ r["month"] = <<n>>
  /\ sel.day[1] # all => Lower(r["day_of_week"][1]) = Lower(sel.day[1])

\* C1: the table load_data returns is a subsequence of the derived rows of the
\* file in their original order, holds exactly the rows whose month is the number
\* of the selected month and whose weekday is the selected weekday (a filter set
\* to 'all' selects every row), and so never has more rows than the file.
C1_FilteredView ==
  Loaded =>
    /\ df.columns = Derive(csv[sel.city[1]]).columns
    /\ Len(df.rows) <= Len(SourceRows)
    /\ \A k \in 1..Len(df.rows) :
         /\ df.rows[k]["index"] + 1 \in 1..Len(SourceRows)
         /\ df.rows[k] = SourceRows[df.rows[k]["index"] + 1]
         /\ Selected(df.rows[k])
    /\ \A k, l \in 1..Len(df.rows) : k < l => df.rows[k]["index"] < df.rows[l]["index"]
    /\ \A i \in 1..Len(SourceRows) :
         Selected(SourceRows[i]) => \E k \in 1..Len(df.rows) : df.rows[k] = SourceRows[i]

\* C1 witness: both filters are set and keep some rows of the file but not all
C1_Witness ==
  /\ Loaded
  /\ sel.month[1] # all
  /\ sel.day[1] # all
  /\ Len(df.rows) >= 1
  /\ Len(df.rows) < Len(SourceRows)
  /\ df.rows[1]["index"] > 0

RowSet(frame) == {frame.rows[i] : i \in 1..Len(frame.rows)}

\* C2: filtering by month alone and then by weekday alone gives the rows of
\* filtering by both, in either order of the two filters; the result holds the
\* rows common to the two single filters; a filter set to 'all' changes nothing.
C2_FiltersCommute ==
  Loaded =>
    LET D == Derive(csv[sel.city[1]])
        M == sel.month[1]
        W == sel.day[1]
        byMonth == FilterData(D, M, all)
        byDay == FilterData(D, all, W)
    IN  /\ df = FilterData(byMonth, all, W)
        /\ df = FilterData(byDay, M, all)
        /\ RowSet(df) = RowSet(byMonth) \cap RowSet(byDay)
        /\ FilterData(D, all, all) = D
        /\ FilterData(df, all, all) = df

\* C2 witness: each filter alone keeps rows that the two together drop
C2_Witness ==
  /\ Loaded
  /\ sel.month[1] # all
  /\ sel.day[1] # all
  /\ df.rows # <<>>
  /\ Len(df.rows) < Len(FilterData(Derive(csv[sel.city[1]]), sel.month[1], all).rows)
  /\ Len(df.rows) < Len(FilterData(Derive(csv[sel.city[1]]), all, sel.day[1]).rows)

\* the columns a statistic reads
StatColumns(s) == IF s = "pair" THEN {"Start Station", "End Station"} ELSE {s}

StatPresent(s) == StatColumns(s) \subseteq df.columns

\* the statistic has no value to work on
StatEmpty(s) ==
  IF s = "pair"
  THEN ~\E i \in 1..Len(df.rows) :
          df.rows[i]["Start Station"] # NaN /\ df.rows[i]["End Station"] # NaN
  ELSE \A i \in 1..Len(df.rows) : df.rows[i][s] = NaN

\* C3: on an empty view, or on a present column without any value, no statistic
\* of the four reports ends in an exception.
C3_EmptyNeverCrashes ==
  Loaded =>
    \A s \in StatNames : (StatPresent(s) /\ StatEmpty(s)) => out[s].kind # "crash"

\* C4: when the reports are over, every statistic that reads an absent column
\* was skipped, every statistic whose columns are present was reported, and the
\* run went through all four reports to the restart prompt.
C4_AbsentSkippedRestReported ==
  pc \in {"restart", "crash"} =>
    /\ pc = "restart"
    /\ \A s \in StatNames : out[s].kind = IF StatPresent(s) THEN "stat" ELSE "absent"

SingleStats == {"month", "day_of_week", "start_hour", "Start Station", "End Station"}

\* the number of rows of the view whose column col holds v
Holding(col, v) == Cardinality({i \in 1..Len(df.rows) : df.rows[i][col] = <<v>>})

Filled(col) == Cardinality({i \in 1..Len(df.rows) : df.rows[i][col] # NaN})

\* C5: on a column with at least one value, display_popular_stats reports a value
\* of maximum frequency, count the number of rows holding it, total the number of
\* non-missing entries and percent = 100 * count / total, with 1 <= count <= total
\* and percent within [0, 100].
C5_PopularStat ==
  \A s \in SingleStats :
    (Loaded /\ out[s].kind # "notrun" /\ StatPresent(s) /\ Filled(s) >= 1) =>
      /\ out[s].kind = "stat"
      /\ Holding(s, out[s].value) >= 1
      /\ \A i \in 1..Len(df.rows) :
           df.rows[i][s] # NaN => Holding(s, df.rows[i][s][1]) <= Holding(s, out[s].value)
      /\ out[s].count = Holding(s, out[s].value)
      /\ out[s].total = Filled(s)
      /\ out[s].percent = Ratio(100 * out[s].count, out[s].total)
      /\ 1 <= out[s].count /\ out[s].count <= out[s].total
      /\ 0 <= out[s].percent.num /\ out[s].percent.num <= 100 * out[s].percent.den

\* C6: with values in Trip Duration, sum is their sum and mean is sum / count;
\* with the column present and no value in it, the statistic reports no number
\* (neither a sum nor an undefined mean) and raises nothing.
C6_DurationStat ==
  (Loaded /\ out["Trip Duration"].kind # "notrun" /\ StatPresent("Trip Duration")) =>
    IF Filled("Trip Duration") >= 1
    THEN /\ out["Trip Duration"].kind = "stat"
         /\ out["Trip Duration"].sum = SumOf(NotNull(df.rows, "Trip Duration"))
         /\ out["Trip Duration"].mean =
              <<Ratio(out["Trip Duration"].sum, Filled("Trip Duration"))>>
    ELSE out["Trip Duration"].kind \notin {"stat", "crash"}

\* the number of rows of the view that go from station a to station b
PairSize(a, b) ==
  Cardinality({i \in 1..Len(df.rows) :
                 df.rows[i]["Start Station"] = <<a>> /\ df.rows[i]["End Station"] = <<b>>})

\* C7: on a view with a row that has both stations, the pair statistic reports a
\* (Start Station, End Station) combination of the largest group size, count is
\* the size of that group, total is the number of rows with an End Station,
\* whether or not they have a Start Station, and count <= total.
C7_PairStat ==
  (Loaded /\ out["Start Station"].kind # "notrun" /\ StatPresent("pair") /\ ~StatEmpty("pair")) =>
    /\ out["pair"].kind = "stat"
    /\ out["pair"].count = PairSize(out["pair"].pair[1], out["pair"].pair[2])
    /\ out["pair"].count >= 1
    /\ \A i \in 1..Len(df.rows) :
         (df.rows[i]["Start Station"] # NaN /\ df.rows[i]["End Station"] # NaN) =>
           PairSize(df.rows[i]["Start Station"][1], df.rows[i]["End Station"][1])
             <= out["pair"].count
    /\ out["pair"].total = Filled("End Station")
    /\ out["pair"].count <= out["pair"].total

\* C7 witness: the rows (A,B), (A,B), (A,C) give the pair (A,B), count 2, total 3
C7_Witness ==
  /\ pc = "duration"
  /\ StatPresent("pair")
  /\ Len(df.rows) = 3
  /\ \A i \in 1..3 : df.rows[i]["Start Station"] = <<<<"A">>>>
  /\ df.rows[1]["End Station"] = <<<<"B">>>>
  /\ df.rows[2]["End Station"] = <<<<"B">>>>
  /\ df.rows[3]["End Station"] = <<<<"C">>>>
  /\ out["pair"].kind = "stat"
  /\ out["pair"].pair = << <<"A">>, <<"B">> >>
  /\ out["pair"].count = 2
  /\ out["pair"].total = 3

ValidSelection(f) ==
  /\ f.city # NaN => f.city[1] \in Cities /\ f.city[1] \in DOMAIN csv
  /\ f.month # NaN => Occurs(VALID_MONTH_OPTIONS, f.month[1])
  /\ f.day # NaN => Occurs(VALID_WEEKDAY_OPTIONS, f.day[1])

ValidList(p) ==
  IF p = "city" THEN CITY_DATA
  ELSE IF p = "month" THEN VALID_MONTH_OPTIONS
  ELSE VALID_WEEKDAY_OPTIONS

\* C8: get_user_input returns only a lower-cased answer of the valid list and
\* stays at its prompt after any other answer, so load_data is only ever called
\* with a city of CITY_DATA, a month of VALID_MONTH_OPTIONS and a weekday of
\* VALID_WEEKDAY_OPTIONS, and the file of the city always exists.
C8_OnlyValidFilters ==
  /\ ValidSelection(gf)
  /\ ValidSelection(sel)
  /\ pc \in {"read", "preview", "derive"} =>
       sel.city # NaN /\ sel.month # NaN /\ sel.day # NaN
  /\ response # NaN =>
       /\ pc \in {"city", "month", "weekday"}
       /\ ~Occurs(ValidList(pc), response[1])
       /\ response[1] = Lower(response[1])

\* C8 witness: load_data is called with answers that were typed in other cases
C8_Witness ==
  /\ pc = "read"
  /\ sel.city = <<new_york_city>>
  /\ sel.month = <<VALID_MONTH_OPTIONS[7]>>
  /\ sel.day = <<VALID_WEEKDAY_OPTIONS[2]>>

MainOrder ==
  <<"get_filters", "load_data", "time_stats", "station_stats", "trip_duration_stats",
    "user_stats">>

\* the calls of main that have returned when the program is at pc
Returned(p) ==
  IF p \in {"city", "month", "weekday"} THEN <<>>
  ELSE IF p \in {"read", "preview", "derive"} THEN SubSeq(MainOrder, 1, 1)
  ELSE IF p = "time" THEN SubSeq(MainOrder, 1, 2)
  ELSE IF p = "station" THEN SubSeq(MainOrder, 1, 3)
  ELSE IF p = "duration" THEN SubSeq(MainOrder, 1, 4)
  ELSE IF p = "user" THEN SubSeq(MainOrder, 1, 5)
  ELSE MainOrder

C9_InOrder ==
  /\ steps = SubSeq(MainOrder, 1, Len(steps))
  /\ pc # "crash" => steps = Returned(pc)
  /\ Len(steps) >= 2 => df = FilterData(Derive(csv[sel.city[1]]), sel.month[1], sel.day[1])

C9_Step ==
  /\ steps' # steps =>
       \/ steps' = <<>> /\ pc = "restart"
       \/ Len(steps) < Len(MainOrder) /\ steps' = Append(steps, MainOrder[Len(steps) + 1])
  /\ pc = "restart" =>
       \/ restart' /\ pc' = "city" /\ steps' = <<>> /\ gf' = NoFilters /\ out' = NoOutput
       \/ ~restart' /\ pc' = "exit"

C10_MonthLabel ==
  (Loaded /\ out["month"].kind # "notrun" /\ df.rows # <<>>) =>
    /\ out["month"].kind = "stat"
    /\ InList(VALID_MONTH_OPTIONS, out["month"].value)
    /\ out["month"].label = Title(ListAt(VALID_MONTH_OPTIONS, out["month"].value))

====
